---- MODULE Spec2Model ----
(***************************************************************************)
(* Model of the log pipeline:                                              *)
(*   Tool A  src/01_json_to_jsonl/app.py   raw JSON logs -> per user/task  *)
(*           JSONL files                                                   *)
(*   Tool B  src/02_jsonl_to_csv/app.py    JSONL -> CSV                    *)
(*   API     src/log_viewer/api/main.py    read-only queries over JSONL    *)
(*                                                                         *)
(* Python strings are sequences of one-character strings, so that the      *)
(* regular expressions, str.strip, str.isdigit, int() and the format       *)
(* specification 03d are computed and not assumed.  A JSON value is a      *)
(* record [t, s, n]: t is its type tag, s its characters (str, or the      *)
(* compact text of a nested object), n its number.                         *)
(***************************************************************************)
EXTENDS Integers, Sequences, FiniteSets, TLC

VARIABLES
    inputs,     \* Tool A: the input tree, a sequence of files in walk order
    args,       \* Tool A: [sort, append] of the current run
    pc,         \* Tool A: "idle", "read", "write", "done", "failed"
    fileIdx,    \* Tool A: next input file to read
    buckets,    \* Tool A: the dict (user_id, task) -> events, in insertion order
    bucketIdx,  \* Tool A: next bucket to write
    err,        \* Tool A: the exception that ended the run
    seen,       \* history: the normalized events of the file read last
    fs,         \* the JSONL tree: Tool A's --out, Tool B's --in, the API's LOG_ROOT
    runs,       \* history: [sort, append, before] of every Tool A run started,
                \* before being the JSONL tree it found
    csv,        \* Tool B's --out tree
    resp,       \* the API's last response
    lastOp      \* history: the operation that took the last step

vars == <<inputs, args, pc, fileIdx, buckets, bucketIdx, err, seen, fs, runs,
          csv, resp, lastOp>>

(***************************************************************************)
(* Bounds of the model.                                                    *)
(***************************************************************************)
MaxRecs == 3     \* records of the bucket SpecSort sorts
MaxItems == 2    \* lines of the .jsonl input of Spec
MaxRuns == 2     \* runs of Tool A in a behaviour
MaxLines == 3    \* lines of a file of the API's tree

(***************************************************************************)
(* Characters and strings.                                                 *)
(***************************************************************************)
DigitChars == <<"0", "1", "2", "3", "4", "5", "6", "7", "8", "9">>

IsDigit(c) == \E i \in 1..Len(DigitChars) : DigitChars[i] = c

DigitVal(c) == (CHOOSE i \in 1..Len(DigitChars) : DigitChars[i] = c) - 1

IsSpace(c) == c \in {" ", "\t", "\n", "\r"}

AllDigits(s) == \A i \in 1..Len(s) : IsDigit(s[i])

\* int(s) of a string of decimal digits
RECURSIVE ParseInt(_)
ParseInt(s) ==
    IF Len(s) = 0 THEN 0
    ELSE ParseInt(SubSeq(s, 1, Len(s) - 1)) * 10 + DigitVal(s[Len(s)])

\* str(n) of n >= 0
RECURSIVE Digits(_)
Digits(n) ==
    IF n < 10 THEN <<DigitChars[n + 1]>>
    ELSE Digits(n \div 10) \o <<DigitChars[(n % 10) + 1]>>

RECURSIVE ZeroPad(_, _)
ZeroPad(s, width) == IF Len(s) >= width THEN s ELSE ZeroPad(<<"0">> \o s, width)

PadWidth == 3

\* f"{n:03d}": the sign counts in the width
Format03d(n) ==
    IF n >= 0 THEN ZeroPad(Digits(n), PadWidth)
    ELSE <<"-">> \o ZeroPad(Digits(-n), PadWidth - 1)

RECURSIVE LStrip(_)
LStrip(s) == IF Len(s) > 0 /\ IsSpace(s[1]) THEN LStrip(Tail(s)) ELSE s

RECURSIVE RStrip(_)
RStrip(s) ==
    IF Len(s) > 0 /\ IsSpace(s[Len(s)]) THEN RStrip(SubSeq(s, 1, Len(s) - 1)) ELSE s

Strip(s) == RStrip(LStrip(s))

StartsWith(s, p) == Len(s) >= Len(p) /\ SubSeq(s, 1, Len(p)) = p

EndsWith(s, p) == Len(s) >= Len(p) /\ SubSeq(s, Len(s) - Len(p) + 1, Len(s)) = p

LowerChar(c) ==
    CASE c = "J" -> "j" [] c = "S" -> "s" [] c = "O" -> "o" [] c = "N" -> "n"
      [] c = "L" -> "l" [] c = "U" -> "u" [] c = "E" -> "e" [] c = "R" -> "r"
      [] c = "T" -> "t" [] c = "A" -> "a" [] c = "K" -> "k" [] OTHER -> c

Lower(s) == [i \in 1..Len(s) |-> LowerChar(s[i])]

\* re.search(r"(\d+)", s): the first maximal run of digits, <<>> when none
FirstDigitRun(s) ==
    IF \A i \in 1..Len(s) : ~IsDigit(s[i]) THEN <<>>
    ELSE LET a == CHOOSE i \in 1..Len(s) :
                      IsDigit(s[i]) /\ \A j \in 1..(i - 1) : ~IsDigit(s[j])
             b == CHOOSE i \in a..Len(s) :
                      /\ \A j \in a..i : IsDigit(s[j])
                      /\ (i = Len(s) \/ ~IsDigit(s[i + 1]))
         IN  SubSeq(s, a, b)

\* re.sub(r"\D", "", s)
RECURSIVE OnlyDigits(_)
OnlyDigits(s) ==
    IF Len(s) = 0 THEN <<>>
    ELSE (IF IsDigit(s[1]) THEN <<s[1]>> ELSE <<>>) \o OnlyDigits(Tail(s))

S_user_ == <<"u", "s", "e", "r", "_">>
S_user == <<"u", "s", "e", "r">>
S_task_ == <<"t", "a", "s", "k", "_">>
S__task == <<"_", "t", "a", "s", "k">>
S_jsonl == <<".", "j", "s", "o", "n", "l">>
S_json == <<".", "j", "s", "o", "n">>
S_csv == <<".", "c", "s", "v">>

(***************************************************************************)
(* JSON values and Python truthiness.                                      *)
(***************************************************************************)
VAbsent == [t |-> "absent", s |-> <<>>, n |-> 0]   \* the key is not in the dict
VNull == [t |-> "null", s |-> <<>>, n |-> 0]
VStr(s) == [t |-> "str", s |-> s, n |-> 0]
VInt(n) == [t |-> "int", s |-> <<>>, n |-> n]
VObj(s) == [t |-> "obj", s |-> s, n |-> 0]         \* a non-empty nested object

IsNone(v) == v.t \in {"null", "absent"}

\* bool(v)
Truthy(v) ==
    CASE v.t = "str" -> v.s # <<>>
      [] v.t = "int" -> v.n # 0
      [] v.t = "obj" -> TRUE
      [] OTHER -> FALSE

\* mutant of PyOr: the first operand that is not None
RECURSIVE PyOrNotNone(_)
PyOrNotNone(vs) ==
    IF Len(vs) = 1 \/ ~IsNone(vs[1]) THEN vs[1] ELSE PyOrNotNone(Tail(vs))

\* a or b or ... : the first truthy operand, else the last one
RECURSIVE PyOr(_)
PyOr(vs) ==
    IF Len(vs) = 1 \/ Truthy(vs[1]) THEN vs[1] ELSE PyOr(Tail(vs))

\* d.get(k): a missing key and a null value both give None
Get(d, k) == IF k \in DOMAIN d /\ d[k].t # "absent" THEN d[k] ELSE VNull

\* json.dumps(v, ensure_ascii=False) of one value, as text
JsonText(v) ==
    CASE v.t = "str" -> <<"\"">> \o v.s \o <<"\"">>
      [] v.t = "int" -> (IF v.n < 0 THEN <<"-">> \o Digits(-v.n) ELSE Digits(v.n))
      [] v.t = "obj" -> v.s
      [] OTHER -> <<"n", "u", "l", "l">>

(***************************************************************************)
(* Tool A: src/01_json_to_jsonl/app.py                                     *)
(***************************************************************************)
UNIFIED_KEYS ==
    <<"ts", "user_id", "username", "task", "event", "code", "stdout", "stderr",
      "estimated_stage", "next_stage", "processing_structure", "advice">>

\* every key normalize_event reads from a raw record
RawKeys ==
    {"event", "type", "event_type", "userId", "user_id", "user", "username",
     "userName", "name", "taskNumber", "task", "task_id", "timestamp", "ts",
     "time", "occurred_at", "code", "stdout", "stderr", "estimated_stage",
     "next_stage", "processing_structure", "advice"}

\* to_int_or_none: VInt(n) or VNull
to_int_or_none(x) ==
    CASE IsNone(x) -> VNull
      [] x.t = "int" -> x
      [] x.t = "str" ->
           LET s == Strip(x.s)
           IN  IF Len(s) > 0 /\ AllDigits(s) THEN VInt(ParseInt(s)) ELSE VNull
      [] OTHER -> VNull

\* pad_user_id, of a value that is not None
pad_user_id(user_id) ==
    LET m == FirstDigitRun(user_id.s)
        n == IF user_id.t = "int" THEN user_id.n
             ELSE IF m # <<>> THEN ParseInt(m) ELSE 0
    IN  S_user_ \o Format03d(n)

\* filename_user_task
filename_user_task(user_id, task_num) ==
    LET u == FirstDigitRun(user_id)
        unum == IF u # <<>> THEN ParseInt(u) ELSE 0
    IN  S_user \o Format03d(unum) \o S__task \o Format03d(task_num) \o S_jsonl

\* USER_DIR_RE / TASK_DIR_RE: ^prefix(\d+)$ on one path segment
MatchDir(prefix, p) ==
    /\ StartsWith(p, prefix)
    /\ Len(p) > Len(prefix)
    /\ AllDigits(SubSeq(p, Len(prefix) + 1, Len(p)))

DirNumber(prefix, p) == ParseInt(SubSeq(p, Len(prefix) + 1, Len(p)))

\* discover_user_task_from_path, of the path's segments: the last match of each wins
RECURSIVE discover_user_task_from_path(_)
discover_user_task_from_path(parts) ==
    IF Len(parts) = 0 THEN [user |-> VNull, task |-> VNull]
    ELSE LET before == discover_user_task_from_path(SubSeq(parts, 1, Len(parts) - 1))
             p == parts[Len(parts)]
         IN  [user |-> IF MatchDir(S_user_, p)
                       THEN VStr(S_user_ \o Format03d(DirNumber(S_user_, p)))
                       ELSE before.user,
              task |-> IF MatchDir(S_task_, p)
                       THEN VInt(DirNumber(S_task_, p))
                       ELSE before.task]

\* normalize_event: the unified record, a function on the unified keys
normalize_event(raw, fallback_user, fallback_task) ==
    LET event0 == PyOr(<<Get(raw, "event"), Get(raw, "type"), Get(raw, "event_type")>>)
        event_type == IF event0.t = "str" THEN VStr(Strip(event0.s)) ELSE event0
        user_id == PyOr(<<Get(raw, "userId"), Get(raw, "user_id"), Get(raw, "user"),
                          fallback_user>>)
        username == PyOr(<<Get(raw, "username"), Get(raw, "userName"), Get(raw, "name")>>)
        task0 == to_int_or_none(PyOr(<<Get(raw, "taskNumber"), Get(raw, "task"),
                                       Get(raw, "task_id")>>))
        task_num == IF IsNone(task0) THEN fallback_task ELSE task0
    IN  [k \in {UNIFIED_KEYS[i] : i \in 1..Len(UNIFIED_KEYS)} |->
            CASE k = "ts" -> PyOr(<<Get(raw, "timestamp"), Get(raw, "ts"),
                                    Get(raw, "time"), Get(raw, "occurred_at")>>)
              [] k = "user_id" -> IF ~IsNone(user_id) THEN VStr(pad_user_id(user_id))
                                  ELSE VNull
              [] k = "username" -> username
              [] k = "task" -> task_num
              [] k = "event" -> event_type
              [] OTHER -> Get(raw, k)]

(***************************************************************************)
(* Timestamps.  A datetime is [aware, min, sec]: whether it carries a UTC  *)
(* offset, and its minutes since 0001-01-01T00:00 (of UTC when aware, as   *)
(* aware datetimes compare by instant) and seconds.                        *)
(***************************************************************************)
NoDatetime == [ok |-> FALSE, aware |-> FALSE, min |-> 0, sec |-> 0]

\* datetime.min, which is naive
DatetimeMin == [ok |-> TRUE, aware |-> FALSE, min |-> 0, sec |-> 0]

IsLeap(y) == (y % 4 = 0 /\ y % 100 # 0) \/ y % 400 = 0

DaysInMonth(y, m) ==
    IF m = 2 THEN (IF IsLeap(y) THEN 29 ELSE 28)
    ELSE IF m \in {4, 6, 9, 11} THEN 30 ELSE 31

RECURSIVE DaysBeforeMonth(_, _)
DaysBeforeMonth(y, m) ==
    IF m = 1 THEN 0 ELSE DaysBeforeMonth(y, m - 1) + DaysInMonth(y, m - 1)

DaysBeforeYear(y) ==
    LET p == y - 1 IN 365 * p + (p \div 4) - (p \div 100) + (p \div 400)

Num(s, a, b) == ParseInt(SubSeq(s, a, b))

\* the shapes of datetime.fromisoformat the model reads: YYYY-MM-DD,
\* YYYY-MM-DDTHH:MM:SS and YYYY-MM-DDTHH:MM:SS(+|-)HH:MM; any other string of the
\* model's inputs is not ISO 8601 at all and raises ValueError
DateShape(s) ==
    /\ Len(s) >= 10
    /\ AllDigits(SubSeq(s, 1, 4)) /\ s[5] = "-" /\ AllDigits(SubSeq(s, 6, 7))
    /\ s[8] = "-" /\ AllDigits(SubSeq(s, 9, 10))
    /\ Num(s, 1, 4) >= 1
    /\ Num(s, 6, 7) \in 1..12
    /\ Num(s, 9, 10) \in 1..DaysInMonth(Num(s, 1, 4), Num(s, 6, 7))

TimeShape(s) ==
    /\ Len(s) >= 19
    /\ s[11] \in {"T", " "}
    /\ AllDigits(SubSeq(s, 12, 13)) /\ s[14] = ":" /\ AllDigits(SubSeq(s, 15, 16))
    /\ s[17] = ":" /\ AllDigits(SubSeq(s, 18, 19))
    /\ Num(s, 12, 13) < 24 /\ Num(s, 15, 16) < 60 /\ Num(s, 18, 19) < 60

OffsetShape(s) ==
    /\ Len(s) = 25
    /\ s[20] \in {"+", "-"}
    /\ AllDigits(SubSeq(s, 21, 22)) /\ s[23] = ":" /\ AllDigits(SubSeq(s, 24, 25))
    /\ Num(s, 21, 22) < 24 /\ Num(s, 24, 25) < 60

fromisoformat(s) ==
    LET days == DaysBeforeYear(Num(s, 1, 4)) + DaysBeforeMonth(Num(s, 1, 4), Num(s, 6, 7))
                + Num(s, 9, 10) - 1
        wall == (days * 24 + Num(s, 12, 13)) * 60 + Num(s, 15, 16)
        off == (Num(s, 21, 22) * 60 + Num(s, 24, 25)) * (IF s[20] = "-" THEN -1 ELSE 1)
    IN  CASE Len(s) = 10 /\ DateShape(s) ->
               [ok |-> TRUE, aware |-> FALSE, min |-> days * 24 * 60, sec |-> 0]
          [] Len(s) = 19 /\ DateShape(s) /\ TimeShape(s) ->
               [ok |-> TRUE, aware |-> FALSE, min |-> wall, sec |-> Num(s, 18, 19)]
          [] DateShape(s) /\ TimeShape(s) /\ OffsetShape(s) ->
               [ok |-> TRUE, aware |-> TRUE, min |-> wall - off, sec |-> Num(s, 18, 19)]
          [] OTHER -> NoDatetime

\* parse_iso_ts: a datetime, or NoDatetime for None
parse_iso_ts(ts) ==
    IF ts.t # "str" THEN NoDatetime
    ELSE LET s == Strip(ts.s)
         IN  IF EndsWith(s, <<"Z">>)
             THEN fromisoformat(SubSeq(s, 1, Len(s) - 1) \o <<"+", "0", "0", ":", "0", "0">>)
             ELSE fromisoformat(s)

\* the sort key of main: parse_iso_ts(e.get("ts")) or datetime.min
SortKey(e) ==
    LET d == parse_iso_ts(Get(e, "ts")) IN IF d.ok THEN d ELSE DatetimeMin

\* a < b of two datetimes; Python raises TypeError when one is naive and one aware
Incomparable(a, b) == a.aware # b.aware

DatetimeLess(a, b) == a.min < b.min \/ (a.min = b.min /\ a.sec < b.sec)

\* list.sort(key=...) raises the TypeError of the first comparison of a naive with
\* an aware key; a sort must link every element to the others by comparisons, so
\* it makes such a comparison exactly when the list holds both kinds
SortRaises(events) ==
    \E i, j \in 1..Len(events) : Incomparable(SortKey(events[i]), SortKey(events[j]))

\* list.sort is stable: e goes after every element that is not greater
RECURSIVE InsertByKey(_, _)
InsertByKey(sorted, e) ==
    IF Len(sorted) = 0 THEN <<e>>
    ELSE IF DatetimeLess(SortKey(e), SortKey(sorted[Len(sorted)]))
         THEN InsertByKey(SubSeq(sorted, 1, Len(sorted) - 1), e) \o <<sorted[Len(sorted)]>>
         ELSE sorted \o <<e>>

RECURSIVE SortByTs(_)
SortByTs(events) ==
    IF Len(events) = 0 THEN <<>>
    ELSE InsertByKey(SortByTs(SubSeq(events, 1, Len(events) - 1)), events[Len(events)])

(***************************************************************************)
(* Files.  An input file is [path, items]: the segments of its path (the   *)
(* last is its name) and its content, one item per line of a .jsonl and   *)
(* per top-level element of a .json.  An item is blank, bad (not JSON), a  *)
(* JSON value that is no object (nondict), or an object (dict).  A line of *)
(* the JSONL tree is [kind, members]: an object's text is its members in   *)
(* the order they were written.                                            *)
(***************************************************************************)
NoError == [kind |-> "none", file |-> <<>>, line |-> 0]

BaseName(path) == path[Len(path)]

\* iter_input_files: the filter on one file name
IsInputFile(path) ==
    LET fn == BaseName(path)
    IN  /\ ~StartsWith(fn, <<".">>)
        /\ (EndsWith(Lower(fn), S_json) \/ EndsWith(Lower(fn), S_jsonl))

\* mutant of ReadJsonlFrom: a bad line is skipped
RECURSIVE ReadJsonlSkipBad(_, _)
ReadJsonlSkipBad(items, i) ==
    IF i > Len(items) THEN [raws |-> <<>>, error |-> 0]
    ELSE LET rest == ReadJsonlSkipBad(items, i + 1)
         IN  [raws |-> (IF items[i].kind = "dict" THEN <<items[i].obj>> ELSE <<>>)
                       \o rest.raws,
              error |-> rest.error]

\* read_json_or_jsonl of a .jsonl, from line i on: the objects yielded before the
\* first bad line, and the RuntimeError naming that line
RECURSIVE ReadJsonlFrom(_, _)
ReadJsonlFrom(items, i) ==
    IF i > Len(items) THEN [raws |-> <<>>, error |-> 0]
    ELSE IF items[i].kind = "bad" THEN [raws |-> <<>>, error |-> i]
    ELSE LET rest == ReadJsonlFrom(items, i + 1)
         IN  [raws |-> (IF items[i].kind = "dict" THEN <<items[i].obj>> ELSE <<>>)
                       \o rest.raws,
              error |-> rest.error]

\* read_json_or_jsonl: [raws, error]
read_json_or_jsonl(f) ==
    IF EndsWith(Lower(BaseName(f.path)), S_jsonl)
    THEN LET r == ReadJsonlFrom(f.items, 1)
         IN  [raws |-> r.raws,
              error |-> IF r.error = 0 THEN NoError
                        ELSE [kind |-> "RuntimeError: JSONL parse error",
                              file |-> f.path, line |-> r.error]]
    ELSE \* json.load parses the whole file before anything is yielded
         IF \/ \E i \in 1..Len(f.items) : f.items[i].kind = "bad"
            \/ \A i \in 1..Len(f.items) : f.items[i].kind = "blank"
         THEN [raws |-> <<>>,
               error |-> [kind |-> "JSONDecodeError", file |-> <<>>, line |-> 0]]
         ELSE [raws |-> ReadJsonlFrom(f.items, 1).raws, error |-> NoError]

\* mutant of Keep: the task is not looked at
KeepAnyTask(ev) == Truthy(Get(ev, "user_id"))

\* main, lines 220-224: buckets[(user_id, task)].append(ev), unless unidentified
Keep(ev) == Truthy(Get(ev, "user_id")) /\ ~IsNone(Get(ev, "task"))

BucketKey(ev) == <<ev["user_id"].s, ev["task"].n>>

AddToBucket(bs, ev) ==
    IF ~Keep(ev) THEN bs
    ELSE IF \E i \in 1..Len(bs) : bs[i].key = BucketKey(ev)
    THEN [i \in 1..Len(bs) |->
             IF bs[i].key = BucketKey(ev)
             THEN [bs[i] EXCEPT !.events = Append(@, ev)] ELSE bs[i]]
    ELSE Append(bs, [key |-> BucketKey(ev), events |-> <<ev>>])

\* line 218, for every record a file yields
NormalizeAll(raws, fb) ==
    [i \in 1..Len(raws) |-> normalize_event(raws[i], fb.user, fb.task)]

RECURSIVE BucketAll(_, _)
BucketAll(bs, evs) ==
    IF Len(evs) = 0 THEN bs ELSE BucketAll(AddToBucket(bs, evs[1]), Tail(evs))

\* json.dumps(row): the unified keys in order, None for a missing one
JsonDumpsRow(ev) ==
    [kind |-> "dict",
     members |-> [i \in 1..Len(UNIFIED_KEYS) |->
                     [k |-> UNIFIED_KEYS[i], v |-> Get(ev, UNIFIED_KEYS[i])]]]

\* json.loads of an object's text: the dict, the last member of a key winning
JsonLoads(line) ==
    [k \in {line.members[i].k : i \in 1..Len(line.members)} |->
        line.members[CHOOSE i \in 1..Len(line.members) :
                        /\ line.members[i].k = k
                        /\ \A j \in (i + 1)..Len(line.members) : line.members[j].k # k].v]

EmptyFs == [root |-> FALSE, dirs |-> {}, files |-> <<>>]

FileLines(tree, p) == IF p \in DOMAIN tree.files THEN tree.files[p] ELSE <<>>

OutPath(b) == <<b.key[1], filename_user_task(b.key[1], b.key[2])>>

\* mutant of WriteMode: the file is truncated in append mode too
WriteModeTruncate(append, old, new) == new

\* open(out_path, "a" or "w") and the writes: what the file holds afterwards
WriteMode(append, old, new) == IF append THEN old \o new ELSE new

\* main, lines 231-241: makedirs, open(out_path, mode), one line per event
WriteFile(tree, b, events, append) ==
    LET p == OutPath(b)
        written == [i \in 1..Len(events) |-> JsonDumpsRow(events[i])]
        content == WriteMode(append, FileLines(tree, p), written)
    IN  [root |-> TRUE,
         dirs |-> tree.dirs \cup {b.key[1]},
         files |-> [q \in (DOMAIN tree.files) \cup {p} |->
                       IF q = p THEN content ELSE tree.files[q]]]

(***************************************************************************)
(* Tool A, main: one step per input file read and per bucket written.      *)
(***************************************************************************)
Stopped == pc \in {"idle", "done", "failed"}

StartA(sort, append) ==
    /\ Stopped
    /\ Len(runs) < MaxRuns
    /\ args' = [sort |-> sort, append |-> append]
    /\ runs' = Append(runs, [sort |-> sort, append |-> append, before |-> fs])
    /\ pc' = "read"
    /\ fileIdx' = 1
    /\ buckets' = <<>>
    /\ bucketIdx' = 1
    /\ err' = NoError
    /\ seen' = <<>>
    /\ lastOp' = "startA"
    /\ UNCHANGED <<inputs, fs, csv, resp>>

\* lines 215-224 for one file of the walk: [buckets, error, seen]
ReadOne(bs, f) ==
    LET r == read_json_or_jsonl(f)
        evs == NormalizeAll(r.raws, discover_user_task_from_path(f.path))
    IN  IF ~IsInputFile(f.path) THEN [buckets |-> bs, error |-> NoError, seen |-> <<>>]
        ELSE [buckets |-> BucketAll(bs, evs), error |-> r.error, seen |-> evs]

\* lines 227-241 for one bucket: [ok, events, tree]; the sort comes first, and
\* its TypeError ends the run before the bucket's file is opened
WriteOne(tree, b, sort, append) ==
    IF sort /\ SortRaises(b.events)
    THEN [ok |-> FALSE, events |-> b.events, tree |-> tree]
    ELSE LET events == IF sort THEN SortByTs(b.events) ELSE b.events
         IN  [ok |-> TRUE, events |-> events, tree |-> WriteFile(tree, b, events, append)]

ReadFile ==
    /\ pc = "read"
    /\ lastOp' = "read"
    /\ IF fileIdx > Len(inputs)
       THEN /\ pc' = IF Len(buckets) = 0 THEN "done" ELSE "write"
            /\ UNCHANGED <<fileIdx, buckets, err, seen>>
       ELSE LET r == ReadOne(buckets, inputs[fileIdx])
            IN  /\ buckets' = r.buckets
                /\ seen' = r.seen
                /\ fileIdx' = fileIdx + 1
                /\ err' = r.error
                /\ pc' = IF r.error # NoError THEN "failed" ELSE "read"
    /\ UNCHANGED <<inputs, args, bucketIdx, fs, runs, csv, resp>>

WriteBucket ==
    /\ pc = "write"
    /\ lastOp' = "write"
    /\ LET w == WriteOne(fs, buckets[bucketIdx], args.sort, args.append)
       IN  IF ~w.ok
           THEN /\ pc' = "failed"
                /\ err' = [kind |-> "TypeError", file |-> <<>>, line |-> 0]
                /\ UNCHANGED <<buckets, bucketIdx, fs>>
           ELSE /\ buckets' = [buckets EXCEPT ![bucketIdx].events = w.events]
                /\ fs' = w.tree
                /\ bucketIdx' = bucketIdx + 1
                /\ pc' = IF bucketIdx = Len(buckets) THEN "done" ELSE "write"
                /\ UNCHANGED err
    /\ UNCHANGED <<inputs, args, fileIdx, seen, runs, csv, resp>>

\* main as a whole, from the tree it finds to the tree it leaves
RECURSIVE ReadAll(_, _, _)
ReadAll(ins, i, bs) ==
    IF i > Len(ins) THEN [buckets |-> bs, error |-> NoError]
    ELSE LET r == ReadOne(bs, ins[i])
         IN  IF r.error # NoError THEN [buckets |-> r.buckets, error |-> r.error]
             ELSE ReadAll(ins, i + 1, r.buckets)

RECURSIVE WriteAll(_, _, _, _, _)
WriteAll(bs, i, tree, sort, append) ==
    IF i > Len(bs) THEN tree
    ELSE LET w == WriteOne(tree, bs[i], sort, append)
         IN  IF ~w.ok THEN tree ELSE WriteAll(bs, i + 1, w.tree, sort, append)

RunA(ins, tree, sort, append) ==
    LET r == ReadAll(ins, 1, <<>>)
    IN  IF r.error # NoError THEN tree ELSE WriteAll(r.buckets, 1, tree, sort, append)

(***************************************************************************)
(* Tool B: src/02_jsonl_to_csv/app.py                                      *)
(***************************************************************************)
JSON_STRINGIFY_FIELDS == {"processing_structure", "advice"}

\* iter_jsonl from line i on: the objects before the first bad line, and that line
RECURSIVE iter_jsonl(_, _)
iter_jsonl(lines, i) ==
    IF i > Len(lines) THEN [objs |-> <<>>, error |-> 0]
    ELSE IF lines[i].kind = "bad" THEN [objs |-> <<>>, error |-> i]
    ELSE LET rest == iter_jsonl(lines, i + 1)
         IN  [objs |-> (IF lines[i].kind = "dict" THEN <<JsonLoads(lines[i])>> ELSE <<>>)
                       \o rest.objs,
              error |-> rest.error]

\* mutant of ensure_row: advice is not stringified
ensure_rowPlainAdvice(obj) ==
    [k \in {UNIFIED_KEYS[i] : i \in 1..Len(UNIFIED_KEYS)} |->
        LET v == Get(obj, k)
            v2 == IF k = "processing_structure" /\ ~IsNone(v) THEN VStr(JsonText(v)) ELSE v
        IN  IF IsNone(v2) THEN VStr(<<>>) ELSE v2]

\* ensure_row: the dict handed to the csv writer
ensure_row(obj) ==
    [k \in {UNIFIED_KEYS[i] : i \in 1..Len(UNIFIED_KEYS)} |->
        LET v == Get(obj, k)
            v2 == IF k \in JSON_STRINGIFY_FIELDS /\ ~IsNone(v) THEN VStr(JsonText(v)) ELSE v
        IN  IF IsNone(v2) THEN VStr(<<>>) ELSE v2]

\* the text csv.DictWriter writes for a cell: str(v) of what is no string (of a
\* nested object that is Python's repr, which is not its JSON text)
CsvCell(v) ==
    CASE v.t = "str" -> v.s
      [] v.t = "int" -> JsonText(v)
      [] v.t = "obj" -> <<"r", "e", "p", "r", " ">> \o v.s
      [] OTHER -> <<>>

\* writer.writerow: the cells in the order of fieldnames
CsvRow(row) == [i \in 1..Len(UNIFIED_KEYS) |-> CsvCell(row[UNIFIED_KEYS[i]])]

\* iter_files: the filter on one file name
IsJsonlFile(fn) == ~StartsWith(fn, <<".">>) /\ EndsWith(Lower(fn), S_jsonl)

\* os.path.splitext(fn)[0]
SplitExtBase(fn) ==
    IF \E i \in 2..Len(fn) : fn[i] = "."
    THEN LET d == CHOOSE i \in 2..Len(fn) :
                      fn[i] = "." /\ \A j \in (i + 1)..Len(fn) : fn[j] # "."
         IN  SubSeq(fn, 1, d - 1)
    ELSE fn

\* to_out_path, relative to the output root
to_out_path(p) == <<p[1], SplitExtBase(p[2]) \o S_csv>>

EmptyCsv == [files |-> <<>>, error |-> NoError]

\* main, lines 85-97, over the files in the order os.walk gives them: a bad line
\* ends the run, with the rows before it written
RECURSIVE ConvertAll(_, _, _)
ConvertAll(order, tree, out) ==
    IF Len(order) = 0 THEN [files |-> out, error |-> NoError]
    ELSE LET p == order[1]
             r == iter_jsonl(tree.files[p], 1)
             table == [header |-> UNIFIED_KEYS,
                       rows |-> [i \in 1..Len(r.objs) |-> CsvRow(ensure_row(r.objs[i]))]]
             out2 == [q \in (DOMAIN out) \cup {to_out_path(p)} |->
                         IF q = to_out_path(p) THEN table ELSE out[q]]
         IN  IF r.error # 0
             THEN [files |-> out2,
                   error |-> [kind |-> "RuntimeError: JSONL parse error",
                              file |-> p, line |-> r.error]]
             ELSE ConvertAll(Tail(order), tree, out2)

Orders(S) ==
    {o \in [1..Cardinality(S) -> S] : \A i, j \in 1..Cardinality(S) : o[i] = o[j] => i = j}

ToolB ==
    /\ Stopped
    /\ \E order \in Orders({p \in DOMAIN fs.files : IsJsonlFile(p[2])}) :
           csv' = ConvertAll(order, fs, csv.files)
    /\ lastOp' = "toolB"
    /\ UNCHANGED <<inputs, args, pc, fileIdx, buckets, bucketIdx, err, seen, fs, runs,
                   resp>>

(***************************************************************************)
(* Inputs of the model.                                                    *)
(***************************************************************************)
SeqsUpTo(S, n) == UNION {[1..m -> S] : m \in 1..n}

EmptyRaw == [k \in RawKeys |-> VAbsent]

DictItem(raw) == [kind |-> "dict", obj |-> raw]
BadItem == [kind |-> "bad", obj |-> EmptyRaw]
BlankItem == [kind |-> "blank", obj |-> EmptyRaw]
NonDictItem == [kind |-> "nondict", obj |-> EmptyRaw]

Seg_log == <<"l", "o", "g">>
Seg_misc == <<"m", "i", "s", "c">>
Seg_user_001 == <<"u", "s", "e", "r", "_", "0", "0", "1">>
Seg_user_1 == <<"u", "s", "e", "r", "_", "1">>
Seg_user_2 == <<"u", "s", "e", "r", "_", "2">>
Seg_user_12 == <<"u", "s", "e", "r", "_", "1", "2">>
Seg_task_1 == <<"t", "a", "s", "k", "_", "1">>
Seg_task_3 == <<"t", "a", "s", "k", "_", "3">>
Seg_task_40 == <<"t", "a", "s", "k", "_", "4", "0">>
Name_run_json == <<"r", "u", "n", ".", "j", "s", "o", "n">>
Name_events_jsonl == <<"e", "v", "e", "n", "t", "s", ".", "j", "s", "o", "n", "l">>
Name_AI_HELP_JSON == <<"A", "I", "-", "H", "E", "L", "P", ".", "J", "S", "O", "N">>
Name_hidden_json == <<".", "h", "i", "d", "d", "e", "n", ".", "j", "s", "o", "n">>
Name_notes_txt == <<"n", "o", "t", "e", "s", ".", "t", "x", "t">>

Ts_02Z == <<"2", "0", "2", "4", "-", "0", "1", "-", "0", "2", "T", "0", "0", ":", "0", "0", ":", "0", "0", "Z">>
Ts_01Z == <<"2", "0", "2", "4", "-", "0", "1", "-", "0", "1", "T", "0", "0", ":", "0", "0", ":", "0", "0", "Z">>
Ts_01plus9 == <<"2", "0", "2", "4", "-", "0", "1", "-", "0", "1", "T", "0", "9", ":", "0", "0", ":", "0", "0", "+", "0", "9", ":", "0", "0">>
Ts_01naive == <<"2", "0", "2", "4", "-", "0", "1", "-", "0", "1", "T", "0", "0", ":", "0", "0", ":", "0", "0">>
Ts_garbage == <<"y", "e", "s", "t", "e", "r", "d", "a", "y">>

\* the API's response: the request's route and parameters, the status, and the body
Response(route, user, task, idx, status, detail) ==
    [route |-> route, user |-> user, task |-> task, idx |-> idx, status |-> status,
     detail |-> detail, names |-> <<>>, nums |-> <<>>, count |-> 0, events |-> <<>>,
     text |-> <<>>]

NoResp == Response("none", <<>>, 0, 0, 0, "")

InitRest ==
    /\ args = [sort |-> FALSE, append |-> FALSE]
    /\ pc = "idle"
    /\ fileIdx = 1
    /\ buckets = <<>>
    /\ bucketIdx = 1
    /\ err = NoError
    /\ seen = <<>>
    /\ runs = <<>>
    /\ csv = EmptyCsv
    /\ resp = NoResp
    /\ lastOp = "init"

(***************************************************************************)
(* SpecSort: one run of Tool A over one bucket of up to MaxRecs records,   *)
(* with every mix of timestamps.  Record i carries stdout = i, which tells *)
(* records of equal timestamp apart.                                       *)
(***************************************************************************)
TsValues ==
    {VNull, VStr(Ts_garbage), VStr(Ts_02Z), VStr(Ts_01Z), VStr(Ts_01plus9), VStr(Ts_01naive)}

SortRaw(ts, i) == [EmptyRaw EXCEPT !["timestamp"] = ts, !["stdout"] = VInt(i)]

InitSort ==
    /\ \E tss \in SeqsUpTo(TsValues, MaxRecs) :
           inputs = <<[path |-> <<Seg_log, Seg_user_001, Seg_task_1, Name_events_jsonl>>,
                       items |-> [i \in 1..Len(tss) |-> DictItem(SortRaw(tss[i], i))]]>>
    /\ fs = EmptyFs
    /\ InitRest

FirstRun == \E sort, append \in BOOLEAN : runs = <<>> /\ StartA(sort, append)

NextSort == FirstRun \/ ReadFile \/ WriteBucket

SpecSort == InitSort /\ [][NextSort]_vars

(***************************************************************************)
(* SpecNorm: one run of Tool A over one record, with every form of the     *)
(* user and task fields and of the path.                                   *)
(***************************************************************************)
UserKeys == <<"userId", "user_id", "user">>
TaskKeys == <<"taskNumber", "task", "task_id">>

UserValues ==
    {VAbsent, VNull, VStr(<<>>), VInt(0), VInt(21), VInt(-5), VStr(<<"u", "s", "e", "r", "_", "0", "2", "1">>),
     VStr(<<"7">>), VStr(<<"a", "b", "c">>), VStr(<<"u", "s", "e", "r", "_", "1", "2", "3", "4">>)}

TaskValues ==
    {VAbsent, VNull, VInt(0), VInt(14), VInt(-1), VStr(<<"1", "4">>), VStr(<<" ", "7", " ">>), VStr(<<"a", "b", "c">>),
     VStr(<<>>)}

IdentPaths ==
    {<<Seg_log, Seg_user_001, Seg_task_3, Name_run_json>>,
     <<Seg_log, Seg_misc, Name_run_json>>,
     <<Seg_log, Seg_user_12, Name_run_json>>,
     <<Seg_log, Seg_task_3, Name_events_jsonl>>,
     <<Seg_log, Seg_user_1, Seg_user_2, Seg_task_3, Seg_task_40, Name_AI_HELP_JSON>>}

IdentRaw(u, k) ==
    [EmptyRaw EXCEPT !["userId"] = u[1], !["user_id"] = u[2], !["user"] = u[3],
                     !["taskNumber"] = k[1], !["task"] = k[2], !["task_id"] = k[3]]

\* every triple of user fields with a plain task, and every triple of task fields
\* with a plain user
IdentRaws ==
    {IdentRaw(u, <<k, VAbsent, VAbsent>>) :
        u \in [1..3 -> UserValues], k \in {VAbsent, VInt(14)}}
    \cup
    {IdentRaw(<<u, VAbsent, VAbsent>>, k) :
        u \in {VAbsent, VStr(<<"u", "s", "e", "r", "_", "0", "2", "1">>)}, k \in [1..3 -> TaskValues]}

InitIdent ==
    /\ \E path \in IdentPaths, raw \in IdentRaws :
           inputs = <<[path |-> path, items |-> <<DictItem(raw)>>]>>
    /\ fs = EmptyFs
    /\ InitRest

FirstPlainRun == runs = <<>> /\ StartA(FALSE, FALSE)

NextNorm == FirstPlainRun \/ ReadFile \/ WriteBucket

SpecNorm == InitIdent /\ [][NextNorm]_vars

(***************************************************************************)
(* Claims on the identity of a record, under SpecNorm.                     *)
(***************************************************************************)
TheRaw == inputs[1].items[1].obj
ThePath == inputs[1].path
TheFallback == discover_user_task_from_path(ThePath)

Range(s) == {s[i] : i \in 1..Len(s)}

\* the int a value stands for, when it is an int or a string of digits
Numeric(v) ==
    \/ v.t = "int"
    \/ v.t = "str" /\ Strip(v.s) # <<>> /\ AllDigits(Strip(v.s))

Coerced(v) ==
    IF v.t = "int" THEN v
    ELSE IF Numeric(v) THEN VInt(ParseInt(Strip(v.s))) ELSE VNull

FieldsGiveUser(raw) == \E k \in Range(UserKeys) : Truthy(raw[k])
FieldsGiveTask(raw) == \E k \in Range(TaskKeys) : Numeric(raw[k])
PathGivesUser(path) == \E p \in Range(path) : MatchDir(S_user_, p)
PathGivesTask(path) == \E p \in Range(path) : MatchDir(S_task_, p)

Unidentified(raw, path) ==
    \/ ~FieldsGiveUser(raw) /\ ~PathGivesUser(path)
    \/ ~FieldsGiveTask(raw) /\ ~PathGivesTask(path)

Identified(d) ==
    /\ Get(d, "user_id").t = "str" /\ Get(d, "user_id").s # <<>>
    /\ Get(d, "task").t = "int"

\* C2: a record for which neither its fields nor its path give a user id, or
\* neither give a task number, reaches no bucket and no output file; and every
\* bucketed event and every written line has a non-empty user_id and a task.
C2_DroppingRule ==
    /\ (fileIdx > 1 /\ Unidentified(TheRaw, ThePath)) =>
           (buckets = <<>> /\ fs = EmptyFs)
    /\ \A i \in 1..Len(buckets) : \A j \in 1..Len(buckets[i].events) :
           /\ Identified(buckets[i].events[j])
           /\ buckets[i].key = <<buckets[i].events[j]["user_id"].s,
                                 buckets[i].events[j]["task"].n>>
    /\ \A p \in DOMAIN fs.files : \A j \in 1..Len(fs.files[p]) :
           Identified(JsonLoads(fs.files[p][j]))

\* C2's case: a record with a user id but no task anywhere was read, and the run
\* ended with nothing bucketed
C2_Witness ==
    /\ pc = "done" /\ Len(seen) = 1
    /\ FieldsGiveUser(TheRaw) /\ ~FieldsGiveTask(TheRaw) /\ ~PathGivesTask(ThePath)
    /\ buckets = <<>> /\ fs = EmptyFs

AnyPresent(raw, keys) == \E i \in 1..Len(keys) : raw[keys[i]].t # "absent"

FirstPresent(raw, keys) ==
    raw[keys[CHOOSE i \in 1..Len(keys) :
                 raw[keys[i]].t # "absent" /\ \A j \in 1..(i - 1) : raw[keys[j]].t = "absent"]]

AnyTruthy(raw, keys) == \E i \in 1..Len(keys) : Truthy(raw[keys[i]])

\* the value Python's or-chain over the keys picks: the first truthy one, and the
\* last key's (None when missing) when none is truthy
Chosen(raw, keys) ==
    IF AnyTruthy(raw, keys)
    THEN raw[keys[CHOOSE i \in 1..Len(keys) :
                     Truthy(raw[keys[i]]) /\ \A j \in 1..(i - 1) : ~Truthy(raw[keys[j]])]]
    ELSE IF raw[keys[Len(keys)]].t = "absent" THEN VNull ELSE raw[keys[Len(keys)]]

\* the event's user_id comes from the path and from no field of the record
UsesPathUser(raw, ev, fb) ==
    /\ ~IsNone(fb.user) /\ ev["user_id"] = fb.user
    /\ \A k \in Range(UserKeys) : IsNone(raw[k]) \/ VStr(pad_user_id(raw[k])) # fb.user

\* C3 as claimed: the task is the coercion of the first present key, the path's
\* task is used only when no task key is present, and the path's user only when
\* no user key is present.
C3_FirstPresentKey ==
    \A i \in 1..Len(seen) :
        /\ AnyPresent(TheRaw, TaskKeys) =>
               seen[i]["task"] = Coerced(FirstPresent(TheRaw, TaskKeys))
        /\ ~AnyPresent(TheRaw, TaskKeys) => seen[i]["task"] = TheFallback.task
        /\ AnyPresent(TheRaw, UserKeys) => ~UsesPathUser(TheRaw, seen[i], TheFallback)

\* C3 as amended: the task is the coercion of the value the or-chain picks (the
\* first truthy one), and the path's task whenever that coercion gives None; the
\* path's user is used exactly when no user key holds a truthy value.
C3_FirstTruthyValue ==
    \A i \in 1..Len(seen) :
        /\ seen[i]["task"] =
               IF Numeric(Chosen(TheRaw, TaskKeys))
               THEN Coerced(Chosen(TheRaw, TaskKeys)) ELSE TheFallback.task
        /\ AnyTruthy(TheRaw, UserKeys) =>
               /\ seen[i]["user_id"] = VStr(pad_user_id(Chosen(TheRaw, UserKeys)))
               /\ ~UsesPathUser(TheRaw, seen[i], TheFallback)
        /\ ~AnyTruthy(TheRaw, UserKeys) => seen[i]["user_id"] = TheFallback.user

\* C3's case: a present task value that is no number, and the path's task taken
C3_Witness ==
    /\ Len(seen) = 1
    /\ TheRaw["taskNumber"] = VStr(<<"a", "b", "c">>)
    /\ TheRaw["task"].t = "absent" /\ TheRaw["task_id"].t = "absent"
    /\ ~IsNone(TheFallback.task)
    /\ seen[1]["task"] = TheFallback.task

\* C7: every written record has a user_id of the form user_ and at least three
\* digits, lies under the directory of that name in the file
\* user<digits>_task<task, zero-padded to three digits>.jsonl, and pad_user_id
\* leaves its user_id unchanged.
C7_CanonicalNaming ==
    \A p \in DOMAIN fs.files : \A j \in 1..Len(fs.files[p]) :
        LET d == JsonLoads(fs.files[p][j])
            uid == d["user_id"].s
            digits == SubSeq(uid, Len(S_user_) + 1, Len(uid))
        IN  /\ StartsWith(uid, S_user_) /\ Len(digits) >= PadWidth /\ AllDigits(digits)
            /\ p[1] = uid
            /\ d["task"].n >= 0
            /\ p[2] = S_user \o digits \o S__task
                        \o ZeroPad(Digits(d["task"].n), PadWidth) \o S_jsonl
            /\ pad_user_id(d["user_id"]) = uid

(***************************************************************************)
(* C1, under SpecSort.                                                     *)
(***************************************************************************)
LineKey(line) == SortKey(JsonLoads(line))

Unparsed(line) == ~parse_iso_ts(Get(JsonLoads(line), "ts")).ok

\* line b must come before line a: b has no timestamp and a has one, or both
\* have one of the same kind and b's is the earlier
MustPrecede(b, a) ==
    \/ Unparsed(b) /\ ~Unparsed(a)
    \/ /\ ~Unparsed(a) /\ ~Unparsed(b)
       /\ ~Incomparable(LineKey(a), LineKey(b))
       /\ DatetimeLess(LineKey(b), LineKey(a))

SameKey(a, b) ==
    /\ Unparsed(a) = Unparsed(b)
    /\ ~Incomparable(LineKey(a), LineKey(b))
    /\ ~DatetimeLess(LineKey(a), LineKey(b)) /\ ~DatetimeLess(LineKey(b), LineKey(a))

\* C1: a run with --sort completes, whatever the mix of timestamps in a bucket,
\* and writes all of the bucket's records, those without a parsable timestamp
\* first, the others in ascending order, records of equal timestamp in their
\* original order.
C1_SortNullFirst ==
    (Len(runs) = 1 /\ runs[1].sort /\ pc \in {"done", "failed"}) =>
        /\ pc = "done"
        /\ \A p \in DOMAIN fs.files :
               /\ Len(fs.files[p]) = Len(inputs[1].items)
               /\ \A i, j \in 1..Len(fs.files[p]) :
                      i < j =>
                          /\ ~MustPrecede(fs.files[p][j], fs.files[p][i])
                          /\ SameKey(fs.files[p][i], fs.files[p][j]) =>
                                 JsonLoads(fs.files[p][i])["stdout"].n
                                     < JsonLoads(fs.files[p][j])["stdout"].n

(***************************************************************************)
(* Spec: runs of Tool A, in either mode, over two input files, one of      *)
(* which may be malformed, on a fresh output tree or on one an earlier run *)
(* of Tool A has left.  SpecB: one run of Tool A and runs of Tool B.       *)
(***************************************************************************)
RecA ==
    [EmptyRaw EXCEPT !["timestamp"] = VStr(Ts_02Z), !["event"] = VStr(<<" ", "r", "u", "n", " ">>),
                     !["code"] = VStr(<<"a", "\n", "b">>), !["stdout"] = VStr(<<"o", "k">>),
                     !["advice"] = VObj(<<"{", "\"", "h", "i", "n", "t", "\"", ":", " ", "1", "}">>)]

RecB ==
    [EmptyRaw EXCEPT !["userId"] = VInt(21), !["taskNumber"] = VStr(<<"1", "4">>),
                     !["advice"] = VStr(<<"r", "e", "t", "r", "y">>),
                     !["processing_structure"] = VObj(<<"[", "1", ",", " ", "2", "]">>)]

RecC == [EmptyRaw EXCEPT !["ts"] = VStr(Ts_01naive), !["code"] = VStr(<<"a", "\n", "c">>)]

RecOld == [EmptyRaw EXCEPT !["time"] = VStr(Ts_01Z), !["stderr"] = VStr(<<"o", "l", "d">>)]

JsonlItems == {DictItem(RecA), DictItem(RecB), BadItem, BlankItem}

JsonlInputs ==
    {[path |-> <<Seg_log, Seg_user_001, Seg_task_1, Name_events_jsonl>>, items |-> items] :
        items \in SeqsUpTo(JsonlItems, MaxItems)}

OtherInputs ==
    {[path |-> <<Seg_log, Seg_user_001, Seg_task_1, Name_run_json>>,
      items |-> <<DictItem(RecC)>>],
     [path |-> <<Seg_log, Seg_user_001, Seg_task_1, Name_run_json>>,
      items |-> <<BadItem>>],
     [path |-> <<Seg_log, Seg_misc, Name_hidden_json>>,
      items |-> <<BadItem>>],
     [path |-> <<Seg_log, Seg_user_12, Seg_task_40, Name_AI_HELP_JSON>>,
      items |-> <<DictItem(RecA), NonDictItem>>]}

\* the tree an earlier run of Tool A over one record of user_001/task_1 has left
OldTree ==
    LET ev == normalize_event(RecOld, VStr(Seg_user_001), VInt(1))
    IN  WriteFile(EmptyFs, [key |-> BucketKey(ev), events |-> <<ev>>], <<ev>>, FALSE)

Init ==
    /\ \E f \in JsonlInputs, g \in OtherInputs : inputs = <<f, g>>
    /\ fs \in {EmptyFs, OldTree}
    /\ InitRest

\* the runs of one behaviour share --sort, as the runs C4 compares do
AnyRun ==
    \E sort, append \in BOOLEAN :
        (IF runs = <<>> THEN TRUE ELSE sort = runs[1].sort) /\ StartA(sort, append)

Next == AnyRun \/ ReadFile \/ WriteBucket

Spec == Init /\ [][Next]_vars

NextB == FirstRun \/ ReadFile \/ WriteBucket \/ ToolB

SpecB == Init /\ [][NextB]_vars

(***************************************************************************)
(* C4 and C10, under Spec.                                                 *)
(***************************************************************************)
RECURSIVE Repeat(_, _)
Repeat(s, n) == IF n = 0 THEN <<>> ELSE s \o Repeat(s, n - 1)

\* what one run in overwrite mode leaves on a fresh output root
Once == RunA(inputs, EmptyFs, runs[1].sort, FALSE)

AllRuns(append) == \A i \in 1..Len(runs) : runs[i].append = append

\* C4: on a fresh output root, after n runs with --append over the same inputs
\* (n = 2 in the claim) every output file holds n times the lines one run in
\* overwrite mode produces, one run's after the other's; after any number of
\* runs in overwrite mode it holds exactly one run's lines.
C4_AppendAccumulates ==
    (Stopped /\ runs # <<>> /\ runs[1].before = EmptyFs) =>
        /\ AllRuns(TRUE) =>
               /\ DOMAIN fs.files = DOMAIN Once.files
               /\ \A p \in DOMAIN fs.files :
                      /\ fs.files[p] = Repeat(Once.files[p], Len(runs))
                      /\ Len(fs.files[p]) = Len(runs) * Len(Once.files[p])
        /\ AllRuns(FALSE) => fs = Once

\* C4's case: two runs with --append on a fresh root are over, and a file holds
\* the two lines of a bucket twice
C4_Witness ==
    /\ pc = "done" /\ Len(runs) = 2 /\ AllRuns(TRUE) /\ runs[1].before = EmptyFs
    /\ \E p \in DOMAIN fs.files : Len(fs.files[p]) = 4

\* a discovered input that is not JSON: a .jsonl with a bad line, a .json with
\* a bad element or nothing in it
Malformed(f) ==
    /\ IsInputFile(f.path)
    /\ \/ \E i \in 1..Len(f.items) : f.items[i].kind = "bad"
       \/ /\ ~EndsWith(Lower(BaseName(f.path)), S_jsonl)
          /\ \A i \in 1..Len(f.items) : f.items[i].kind = "blank"

AnyMalformed == \E i \in 1..Len(inputs) : Malformed(inputs[i])

TreeBefore == runs[Len(runs)].before

\* C10: no output file is created, truncated or appended to before every input
\* is read; a run over a malformed input never reaches its writes, and ends
\* with an error (which for a .jsonl names the file and the first bad line)
\* with the output tree as the run found it.
C10_AllOrNothing ==
    /\ pc = "read" => fs = TreeBefore
    /\ (runs # <<>> /\ AnyMalformed) => (pc \in {"read", "failed"} /\ fs = TreeBefore)
    /\ (pc = "failed" /\ AnyMalformed) =>
           /\ err.kind \in {"RuntimeError: JSONL parse error", "JSONDecodeError"}
           /\ err.kind = "RuntimeError: JSONL parse error" =>
                  \E i \in 1..Len(inputs) :
                      /\ inputs[i].path = err.file
                      /\ EndsWith(Lower(BaseName(err.file)), S_jsonl)
                      /\ inputs[i].items[err.line].kind = "bad"
                      /\ \A j \in 1..(err.line - 1) : inputs[i].items[j].kind # "bad"

\* C10's case: a run with --append over a malformed second input has failed, the
\* first file bucketed, on a tree that holds a file of that bucket
C10_Witness ==
    /\ pc = "failed" /\ args.append /\ Malformed(inputs[2]) /\ ~Malformed(inputs[1])
    /\ buckets # <<>>
    /\ fs = OldTree /\ \E i \in 1..Len(buckets) : OutPath(buckets[i]) \in DOMAIN fs.files

(***************************************************************************)
(* C9, under SpecB.                                                        *)
(***************************************************************************)
\* the text of a column: empty for null, the JSON text of a
\* processing_structure or advice, the value's own text otherwise
ExpectedCell(k, v) ==
    IF IsNone(v) THEN <<>>
    ELSE IF k \in {"processing_structure", "advice"} THEN JsonText(v)
    ELSE IF v.t = "int" THEN (IF v.n < 0 THEN <<"-">> \o Digits(-v.n) ELSE Digits(v.n))
    ELSE v.s

\* the buckets the run has written: all of them, or those before the failure
WrittenBuckets == 1..(bucketIdx - 1)

\* C9: once Tool B has run, every file of the JSONL tree has a table with the
\* twelve unified keys as header and one row per line, and the rows of the
\* records Tool A wrote for a bucket (the last rows of the file, all of them in
\* overwrite mode) are those records in the bucket's order, column by column:
\* empty for null, the JSON text for processing_structure and advice, the
\* value's text otherwise.
C9_RoundTrip ==
    lastOp = "toolB" =>
        /\ csv.error = NoError
        /\ \A p \in DOMAIN fs.files :
               /\ to_out_path(p) \in DOMAIN csv.files
               /\ csv.files[to_out_path(p)].header = UNIFIED_KEYS
               /\ Len(UNIFIED_KEYS) = 12
               /\ Len(csv.files[to_out_path(p)].rows) = Len(fs.files[p])
        /\ \A i \in WrittenBuckets :
               LET events == buckets[i].events
                   rows == csv.files[to_out_path(OutPath(buckets[i]))].rows
                   old == IF args.append THEN Len(FileLines(TreeBefore, OutPath(buckets[i])))
                          ELSE 0
               IN  /\ Len(rows) = old + Len(events)
                   /\ \A j \in 1..Len(events) : \A c \in 1..Len(UNIFIED_KEYS) :
                          rows[old + j][c] = ExpectedCell(UNIFIED_KEYS[c], events[j][UNIFIED_KEYS[c]])

\* C9's case: Tool B has run after a run of Tool A that wrote a bucket of two
\* records, one with advice and one without
C9_Witness ==
    /\ lastOp = "toolB" /\ pc = "done"
    /\ \E i \in WrittenBuckets : \E j, k \in 1..Len(buckets[i].events) :
           /\ ~IsNone(buckets[i].events[j]["advice"])
           /\ IsNone(buckets[i].events[k]["advice"])

(***************************************************************************)
(* The Query API: src/log_viewer/api/main.py.  fs is the tree at LOG_ROOT. *)
(***************************************************************************)
\* the characters of the model's file names, in code point order
CharOrder ==
    <<"-", ".", "0", "1", "2", "3", "4", "5", "6", "7", "8", "9", "_", "a", "b", "c",
      "d", "e", "f", "g", "h", "i", "j", "k", "l", "m", "n", "o", "p", "q", "r", "s",
      "t", "u", "v", "w", "x", "y", "z">>

CharCode(c) == CHOOSE i \in 1..Len(CharOrder) : CharOrder[i] = c

\* a < b of two strings
RECURSIVE StrLess(_, _)
StrLess(a, b) ==
    IF Len(b) = 0 THEN FALSE
    ELSE IF Len(a) = 0 THEN TRUE
    ELSE IF a[1] = b[1] THEN StrLess(Tail(a), Tail(b))
    ELSE CharCode(a[1]) < CharCode(b[1])

\* sorted(names)
RECURSIVE SortedNames(_)
SortedNames(S) ==
    IF S = {} THEN <<>>
    ELSE LET m == CHOOSE x \in S : \A y \in S : ~StrLess(y, x)
         IN  <<m>> \o SortedNames(S \ {m})

\* mutant of must_exist_dir: a missing root is not looked for
must_exist_dirAnyRoot(tree) == TRUE

\* must_exist_dir(LOG_ROOT): whether it returns (else HTTPException 500)
must_exist_dir(tree) == tree.root

\* USER_DIR_RE: ^user_\d+$
IsUserDir(name) == MatchDir(S_user_, name)

\* TASK_FILE_RE: ^user\d+_task(\d+)\.jsonl$, and its group
TaskFileSplit(fn) ==
    LET u == FirstDigitRun(fn)
        rest == SubSeq(fn, Len(S_user) + Len(u) + 1, Len(fn))
        k == FirstDigitRun(rest)
    IN  [ok |-> /\ StartsWith(fn, S_user) /\ Len(fn) > Len(S_user) /\ IsDigit(fn[Len(S_user) + 1])
                /\ StartsWith(rest, S__task)
                /\ Len(rest) > Len(S__task) /\ IsDigit(rest[Len(S__task) + 1])
                /\ rest = S__task \o k \o S_jsonl,
         num |-> k]

IsTaskFile(fn) == TaskFileSplit(fn).ok

TaskFileNum(fn) == ParseInt(TaskFileSplit(fn).num)

\* the task numbers of a set of files, sorted
RECURSIVE SortedTaskNums(_)
SortedTaskNums(S) ==
    IF S = {} THEN <<>>
    ELSE LET m == CHOOSE x \in S : \A y \in S : TaskFileNum(x[2]) <= TaskFileNum(y[2])
         IN  <<TaskFileNum(m[2])>> \o SortedTaskNums(S \ {m})

\* run_obj.get(k): no line of the model's trees holds a nested "run" object, so
\* run_obj is {}
RunObjGet(obj, k) == VNull

\* normalize_event of the API
api_normalize_event(obj, idx) ==
    [idx |-> idx,
     ts |-> PyOr(<<Get(obj, "timestamp"), Get(obj, "ts"), Get(obj, "time"),
                   Get(obj, "datetime")>>),
     user |-> PyOr(<<Get(obj, "user"), Get(obj, "userId"), Get(obj, "username")>>),
     task |-> PyOr(<<Get(obj, "task"), Get(obj, "taskNumber"), Get(obj, "task_id")>>),
     event |-> PyOr(<<Get(obj, "event"), Get(obj, "type")>>),
     code |-> PyOr(<<Get(obj, "code"), Get(obj, "source"), Get(obj, "program")>>),
     stdout |-> IF IsNone(Get(obj, "stdout")) THEN RunObjGet(obj, "stdout")
                ELSE Get(obj, "stdout"),
     stderr |-> IF IsNone(Get(obj, "stderr")) THEN RunObjGet(obj, "stderr")
                ELSE Get(obj, "stderr"),
     estimated_stage |-> Get(obj, "estimated_stage"),
     next_stage |-> Get(obj, "next_stage"),
     processing_structure |-> Get(obj, "processing_structure"),
     advice |-> Get(obj, "advice"),
     raw |-> obj]

\* read_jsonl_events from line i on, idx being the number of events so far:
\* [events, crashed]; a line that is JSON but no object has no .get, and the
\* AttributeError of normalize_event ends the request
RECURSIVE ReadEventsFrom(_, _, _)
ReadEventsFrom(lines, i, idx) ==
    IF i > Len(lines) THEN [events |-> <<>>, crashed |-> FALSE]
    ELSE IF lines[i].kind \in {"blank", "bad"} THEN ReadEventsFrom(lines, i + 1, idx)
    ELSE IF lines[i].kind # "dict" THEN [events |-> <<>>, crashed |-> TRUE]
    ELSE LET rest == ReadEventsFrom(lines, i + 1, idx + 1)
         IN  [events |-> <<api_normalize_event(JsonLoads(lines[i]), idx)>> \o rest.events,
              crashed |-> rest.crashed]

read_jsonl_events(tree, p) ==
    IF p \notin DOMAIN tree.files THEN [events |-> <<>>, crashed |-> FALSE]
    ELSE ReadEventsFrom(tree.files[p], 1, 0)

RootNotFound(route, user, task) == Response(route, user, task, 0, 500, "LOG_ROOT not found")

ApiUnchanged ==
    UNCHANGED <<inputs, args, pc, fileIdx, buckets, bucketIdx, err, seen, fs, runs, csv>>

\* GET /api/health
health ==
    /\ resp' = Response("health", <<>>, 0, 0, 200, "")
    /\ lastOp' = "health"
    /\ ApiUnchanged

\* GET /api/users
users ==
    /\ resp' = IF ~must_exist_dir(fs) THEN RootNotFound("users", <<>>, 0)
               ELSE [Response("users", <<>>, 0, 0, 200, "")
                        EXCEPT !.names = SortedNames({d \in fs.dirs : IsUserDir(d)})]
    /\ lastOp' = "users"
    /\ ApiUnchanged

\* GET /api/users/{user}/tasks
tasks(user) ==
    /\ resp' = IF ~must_exist_dir(fs) THEN RootNotFound("tasks", user, 0)
               ELSE IF user \notin fs.dirs
               THEN Response("tasks", user, 0, 0, 404, "User not found")
               ELSE [Response("tasks", user, 0, 0, 200, "")
                        EXCEPT !.nums =
                            SortedTaskNums({p \in DOMAIN fs.files :
                                               p[1] = user /\ IsTaskFile(p[2])})]
    /\ lastOp' = "tasks"
    /\ ApiUnchanged

\* GET /api/users/{user}/tasks/{task}/events
events(user, task) ==
    /\ resp' = IF ~must_exist_dir(fs) THEN RootNotFound("events", user, task)
               ELSE IF user \notin fs.dirs
               THEN Response("events", user, task, 0, 404, "User not found")
               ELSE LET filename == S_user \o OnlyDigits(user) \o S__task
                                       \o Format03d(task) \o S_jsonl
                        r == read_jsonl_events(fs, <<user, filename>>)
                    IN  IF r.crashed
                        THEN Response("events", user, task, 0, 500, "Internal Server Error")
                        ELSE [Response("events", user, task, 0, 200, "")
                                 EXCEPT !.count = Len(r.events), !.events = r.events]
    /\ lastOp' = "events"
    /\ ApiUnchanged

\* the routes the app declares (lines 94, 99, 106, 126)
Routes == {"health", "users", "tasks", "events"}

\* a request for a path no route of the app matches, as those of the event and
\* diff requests: the router answers 404
unrouted(route, user, task, idx) ==
    /\ route \notin Routes
    /\ resp' = Response(route, user, task, idx, 404, "Not Found")
    /\ lastOp' = "unrouted"
    /\ ApiUnchanged

(***************************************************************************)
(* SpecAPI: requests over a tree whose one varying file holds up to        *)
(* MaxLines lines: objects Tool A wrote, blank lines, lines that are not   *)
(* JSON and JSON values that are no object.                                *)
(***************************************************************************)
Seg_user_005 == <<"u", "s", "e", "r", "_", "0", "0", "5">>
Seg_user_999 == <<"u", "s", "e", "r", "_", "9", "9", "9">>
Name_task002 == <<"u", "s", "e", "r", "0", "0", "5", "_", "t", "a", "s", "k", "0", "0", "2", ".", "j", "s", "o", "n", "l">>
Name_task010 == <<"u", "s", "e", "r", "0", "0", "5", "_", "t", "a", "s", "k", "0", "1", "0", ".", "j", "s", "o", "n", "l">>

LineOf(raw) == JsonDumpsRow(normalize_event(raw, VStr(Seg_user_005), VInt(2)))

BlankLine == [kind |-> "blank", members |-> <<>>]
BadLine == [kind |-> "bad", members |-> <<>>]
NonDictLine == [kind |-> "nondict", members |-> <<>>]

ApiLines == {LineOf(RecA), LineOf(RecB), LineOf(RecC), BlankLine, BadLine, NonDictLine}

Tree(files) == [root |-> TRUE, dirs |-> {Seg_user_005, Seg_misc}, files |-> files]

OtherFiles ==
    (<<Seg_user_005, Name_task010>> :> <<LineOf(RecB)>>)
        @@ (<<Seg_user_005, Name_notes_txt>> :> <<BadLine>>)
        @@ (<<Seg_misc, Name_events_jsonl>> :> <<>>)

ApiTrees ==
    {EmptyFs, [root |-> TRUE, dirs |-> {}, files |-> <<>>], Tree(OtherFiles)}
    \cup {Tree((<<Seg_user_005, Name_task002>> :> lines) @@ OtherFiles) :
             lines \in SeqsUpTo(ApiLines, MaxLines)}

ApiUsers == {Seg_user_005, Seg_user_999}
ApiTasks == {2, 10}

InitAPI ==
    /\ fs \in ApiTrees
    /\ inputs = <<>>
    /\ InitRest

NextAPI ==
    \/ health
    \/ users
    \/ \E user \in ApiUsers : tasks(user)
    \/ \E user \in ApiUsers, task \in ApiTasks : events(user, task)
    \/ \E route \in {"event", "diff"}, idx \in 0..MaxLines :
          unrouted(route, Seg_user_005, 2, idx)

SpecAPI == InitAPI /\ [][NextAPI]_vars

(***************************************************************************)
(* The claims about the Query API.                                         *)
(***************************************************************************)
\* the file of the user and task the response answers for
AskedFile == <<resp.user, S_user \o OnlyDigits(resp.user) \o S__task
                             \o Format03d(resp.task) \o S_jsonl>>

AskedLines == FileLines(fs, AskedFile)

\* the lines that parse as JSON, in file order
ParsedLines == SelectSeq(AskedLines, LAMBDA l : l.kind \notin {"blank", "bad"})

Served == resp.route = "events" /\ fs.root /\ resp.user \in fs.dirs

\* C5: the events request returns, in file order, exactly the lines of the
\* user/task file that parse as JSON, blank and unparsable lines skipped, tagged
\* idx 0..k-1 by their position among the parsed lines, and count is k.
C5_EventsAreParsedLines ==
    Served =>
        /\ resp.status = 200
        /\ resp.count = Len(ParsedLines)
        /\ Len(resp.events) = Len(ParsedLines)
        /\ \A i \in 1..Len(resp.events) :
              /\ resp.events[i].idx = i - 1
              /\ ParsedLines[i].kind = "dict"
              /\ resp.events[i].raw = JsonLoads(ParsedLines[i])

\* C6: an unknown user directory gives 404 for tasks and events; an existing
\* user whose task file is missing gives a successful empty events response
\* with count 0; a missing log root gives 500 for users, tasks and events.
C6_MissingThings ==
    /\ (resp.route \in {"tasks", "events"} /\ fs.root /\ resp.user \notin fs.dirs)
          => resp.status = 404
    /\ (Served /\ AskedFile \notin DOMAIN fs.files)
          => (resp.status = 200 /\ resp.count = 0 /\ resp.events = <<>>)
    /\ (resp.route \in {"users", "tasks", "events"} /\ ~fs.root) => resp.status = 500

\* an existing user whose task file is missing was asked for its events
C6_Witness ==
    /\ Served
    /\ AskedFile \notin DOMAIN fs.files
    /\ resp.status = 200
    /\ resp.count = 0

\* str.splitlines of a text
RECURSIVE SplitLines(_, _)
SplitLines(s, cur) ==
    IF s = <<>> THEN (IF cur = <<>> THEN <<>> ELSE <<cur>>)
    ELSE IF s[1] = "\n" THEN <<cur>> \o SplitLines(Tail(s), <<>>)
    ELSE SplitLines(Tail(s), Append(cur, s[1]))

\* the code of an event, an absent code being the empty text
CodeOf(ev) == IF ev.code.t = "str" THEN ev.code.s ELSE <<>>

\* the changed lines of a line diff of two texts: those only the first holds,
\* marked "-", then those only the second holds, marked "+"
ChangedLines(a, b) ==
    LET la == SplitLines(a, <<>>)
        lb == SplitLines(b, <<>>)
        In(l, ls) == \E i \in 1..Len(ls) : ls[i] = l
        Mark(m, ls) == [i \in 1..Len(ls) |-> <<m>> \o ls[i]]
    IN  Mark("-", SelectSeq(la, LAMBDA l : ~In(l, lb)))
           \o Mark("+", SelectSeq(lb, LAMBDA l : ~In(l, la)))

\* C8: the diff request for event idx answers with the line diff of the code
\* of event idx-1 and the code of event idx, and with empty text when idx is 0
\* or beyond the last event.
C8_DiffOfConsecutiveCodes ==
    (resp.route = "diff" /\ fs.root /\ resp.user \in fs.dirs) =>
        LET evs == read_jsonl_events(fs, AskedFile).events
        IN  /\ resp.status = 200
            /\ resp.text = IF resp.idx <= 0 \/ resp.idx >= Len(evs) THEN <<>>
                           ELSE ChangedLines(CodeOf(evs[resp.idx]), CodeOf(evs[resp.idx + 1]))

====
